---- MODULE Spec2Model ----
(***************************************************************************)
(* Proxylab: the capture store (captureStore.ts: InMemoryCaptureStore and  *)
(* FileCaptureStore) and the capture/replay endpoints of the server        *)
(* (index.ts, redaction.ts).                                               *)
(*                                                                         *)
(* Two specifications share the variables:                                 *)
(*   SpecStore  the store used as a library: add with any record, the      *)
(*              persistence file, reconstruction, crashes;                 *)
(*   Spec       the server: proxy and replay calls in flight, each one     *)
(*              adding a record with a fresh id when its exchange ends.    *)
(*                                                                         *)
(* Left out of the records: createdAt and durationMs (clock readings that  *)
(* no operation reads back).                                               *)
(***************************************************************************)
EXTENDS Integers, Sequences, FiniteSets, TLC

VARIABLES
    mode,         \* "memory": InMemoryCaptureStore, "file": FileCaptureStore
    maxCaptures,  \* InMemoryCaptureStore.maxCaptures
    captures,     \* InMemoryCaptureStore.captures: StoredCapture[], newest first
    byId,         \* InMemoryCaptureStore.byId: Map<string, StoredCapture>
    file,         \* the persistence file at FileCaptureStore.filePath
    phase,        \* where the process owning the store is in its life
    base,         \* history: captures as the last from-scratch construction left them
    adds,         \* history: the entries whose add completed since then, oldest first
    pending,      \* history: the entry of the add a crash interrupted
    prev,         \* history: the first store's state when a second one was opened
    inflight,     \* server: the calls awaiting their upstream exchange
    calls,        \* server: the outbound calls issued so far (fetchImpl invocations)
    reply,        \* server: what the last finished handler answered and did
    nextId,       \* server: the randomUUID values drawn for records so far
    parsed,       \* redactBody: the value JSON.parse(body) returned
    redacted,     \* redactBody: the value redactJsonObject(parsed) returned
    args,         \* a function of index.ts evaluated on its own: its arguments
    result        \* and what it returned

storeVars == <<mode, maxCaptures, captures, byId, file>>
histVars == <<phase, base, adds, pending, prev>>
serverVars == <<inflight, calls, reply, nextId>>
redactionVars == <<parsed, redacted>>
callVars == <<args, result>>
vars == <<mode, maxCaptures, captures, byId, file, phase, base, adds, pending, prev,
          inflight, calls, reply, nextId, parsed, redacted, args, result>>

----------------------------------------------------------------------------
(* Bounds of the model. *)

\* the configured maximum ranges over 1..MaxN
MaxN == 2
\* adds made on the store used as a library
MaxAdds == 3
\* outbound calls the server issues
MaxCalls == 3

----------------------------------------------------------------------------
(* JavaScript values. *)

\* the value of an absent property or an unset optional
Undefined == "<undefined>"
\* JSON null
Null == "<null>"

EmptyMap == <<>>

\* the values JSON.parse returns: a string, a number, null, an array (a sequence of
\* values) or an object (its own enumerable properties as <<key, value>> pairs, in
\* the order Object.entries lists them)
JsonString(s) == [t |-> "string", v |-> s]

JsonNumber(n) == [t |-> "number", v |-> n]

JsonNull == [t |-> "null", v |-> "null"]

JsonArray(items) == [t |-> "array", v |-> items]

JsonObject(entries) == [t |-> "object", v |-> entries]

\* no value yet
NotRedacted == [t |-> "none", v |-> "none"]

MapSet(m, k, v) == [x \in DOMAIN m \cup {k} |-> IF x = k THEN v ELSE m[x]]

MapDelete(m, k) == [x \in DOMAIN m \ {k} |-> m[x]]

\* {...a, ...b}
Spread(a, b) == [k \in DOMAIN a \cup DOMAIN b |-> IF k \in DOMAIN b THEN b[k] ELSE a[k]]

Take(s, n) == SubSeq(s, 1, IF n < Len(s) THEN n ELSE Len(s))

Reverse(s) == [i \in 1..Len(s) |-> s[Len(s) + 1 - i]]

Range(s) == {s[i] : i \in DOMAIN s}

Min(a, b) == IF a < b THEN a ELSE b

----------------------------------------------------------------------------
(* types.ts, and the fixtures of captureStore.test.ts. *)

JsonContentType == "content-type" :> "application/json"

CapturePayload(headers, body, size) == [headers |-> headers, body |-> body, size |-> size]

makeCapture(id, statusCode) ==
    [id |-> id,
     replayOf |-> Null,
     method |-> "POST",
     targetUrl |-> "https://api.example.com/v1/messages",
     path |-> "/v1/messages",
     statusCode |-> statusCode,
     request |-> CapturePayload(JsonContentType, "{\"ok\":true}", 11),
     response |-> CapturePayload(JsonContentType, "{\"done\":true}", 13)]

makeReplay(body) ==
    [id |-> "source-1",
     method |-> "POST",
     targetUrl |-> "https://api.example.com/v1/messages",
     path |-> "/v1/messages",
     headers |-> JsonContentType,
     body |-> body]

StoredCapture(record, replay) == [record |-> record, replay |-> replay]

----------------------------------------------------------------------------
(* InMemoryCaptureStore. A store value is [captures, byId]. *)

Store(caps, idx) == [captures |-> caps, byId |-> idx]

\* a null that a store file put where a StoredCapture is expected
IsNull(entry) == "shape" \in DOMAIN entry

EmptyStore == Store(<<>>, EmptyMap)

\* a prune that drops the list entry and keeps its index entry
RECURSIVE pruneKeepsIndex(_, _)
pruneKeepsIndex(st, max) ==
    IF Len(st.captures) > max
    THEN pruneKeepsIndex(Store(SubSeq(st.captures, 1, Len(st.captures) - 1), st.byId), max)
    ELSE st

\* a prune that evicts from the front of the list
RECURSIVE pruneNewest(_, _)
pruneNewest(st, max) ==
    IF Len(st.captures) > max
    THEN pruneNewest(Store(Tail(st.captures),
                           IF IsNull(Head(st.captures)) THEN st.byId
                           ELSE MapDelete(st.byId, Head(st.captures).record.id)),
                     max)
    ELSE st

\* while (captures.length > maxCaptures) { removed = captures.pop();
\* if (removed) byId.delete(removed.record.id) }
RECURSIVE prune(_, _)
prune(st, max) ==
    IF Len(st.captures) > max
    THEN LET removed == st.captures[Len(st.captures)]
         IN  prune(Store(SubSeq(st.captures, 1, Len(st.captures) - 1),
                         IF IsNull(removed) THEN st.byId
                         ELSE MapDelete(st.byId, removed.record.id)),
                   max)
    ELSE st

\* an add that never evicts
addWithoutPrune(st, max, record, replay) ==
    LET entry == StoredCapture(record, replay)
    IN  Store(<<entry>> \o st.captures, MapSet(st.byId, record.id, entry))

\* an add that appends
addAtTail(st, max, record, replay) ==
    LET entry == StoredCapture(record, replay)
    IN  Store(Take(Append(st.captures, entry), max),
              [id \in {e.record.id : e \in Range(Take(Append(st.captures, entry), max))} |->
                   IF id = record.id THEN entry ELSE st.byId[id]])

\* captures.unshift(entry); byId.set(record.id, entry); prune()
add(st, max, record, replay) ==
    LET entry == StoredCapture(record, replay)
    IN  prune(Store(<<entry>> \o st.captures, MapSet(st.byId, record.id, entry)), max)

list(st) == [i \in DOMAIN st.captures |-> st.captures[i].record]

\* the result of a lookup: undefined, or the value found
NotFound == [found |-> FALSE]

Found(value) == [found |-> TRUE, value |-> value]

get(st, id) == IF id \in DOMAIN st.byId THEN Found(st.byId[id].record) ELSE NotFound

\* a lookup that falls back to the newest entry
getReplaySourceOrNewest(st, id) ==
    IF id \in DOMAIN st.byId THEN Found(st.byId[id].replay)
    ELSE IF st.captures # <<>> THEN Found(st.captures[1].replay)
    ELSE NotFound

getReplaySource(st, id) == IF id \in DOMAIN st.byId THEN Found(st.byId[id].replay) ELSE NotFound

----------------------------------------------------------------------------
(* The persistence file and JSON. A file is absent, holds text that is not  *)
(* JSON, or holds a JSON document; of a document only `captures` is read:   *)
(* isArray says whether Array.isArray(parsed?.captures), and captures lists *)
(* its elements. An element is a record/replay pair ("pair"), null          *)
(* ("null"), or a pair whose record has no id ("noid").                     *)

AbsentFile == [tag |-> "absent", isArray |-> FALSE, captures |-> <<>>]

GarbageFile == [tag |-> "garbage", isArray |-> FALSE, captures |-> <<>>]

JsonFile(isArray, elements) == [tag |-> "json", isArray |-> isArray, captures |-> elements]

\* JSON.stringify of an object leaves out the properties whose value is undefined
stringifyReplay(replay) ==
    IF replay.body = Undefined THEN [k \in DOMAIN replay \ {"body"} |-> replay[k]] ELSE replay

\* reading a property the parsed object does not have yields undefined
parseReplay(json) ==
    [id |-> json.id, method |-> json.method, targetUrl |-> json.targetUrl, path |-> json.path,
     headers |-> json.headers,
     body |-> IF "body" \in DOMAIN json THEN json.body ELSE Undefined]

stringifyEntry(entry) ==
    [shape |-> "pair", record |-> entry.record, replay |-> stringifyReplay(entry.replay)]

parseEntry(element) == StoredCapture(element.record, parseReplay(element.replay))

\* a snapshot that lists the pairs oldest first
snapshotOldestFirst(st) ==
    JsonFile(TRUE, Reverse([i \in DOMAIN st.captures |-> stringifyEntry(st.captures[i])]))

\* snapshot(): { version: 1, captures: captures.map(entry => ({record, replay})) }
snapshot(st) == JsonFile(TRUE, [i \in DOMAIN st.captures |-> stringifyEntry(st.captures[i])])

\* entry.record throws a TypeError in snapshot() when captures holds a null
snapshotThrows(st) == \E i \in DOMAIN st.captures : IsNull(st.captures[i])

\* writeFileSync(filePath, JSON.stringify(snapshot(), null, 2)): the file after persist()
\* ran on file f; nothing is written when snapshot() throws
persist(st, f) == IF snapshotThrows(st) THEN f ELSE snapshot(st)

\* entry.record throws a TypeError when entry is null
Throws(element) == element.shape = "null"

\* the loop of hydrate: for (const entry of entries) { captures.push(entry);
\* byId.set(entry.record.id, entry) }; push runs before the read of entry.record.id
RECURSIVE hydrateLoop(_, _)
hydrateLoop(st, elements) ==
    IF elements = <<>>
    THEN [store |-> st, threw |-> FALSE]
    ELSE LET element == Head(elements)
         IN  IF Throws(element)
             THEN [store |-> Store(Append(st.captures, element), st.byId), threw |-> TRUE]
             ELSE LET entry == parseEntry(element)
                  IN  hydrateLoop(Store(Append(st.captures, entry),
                                        MapSet(st.byId, entry.record.id, entry)),
                                  Tail(elements))

\* hydrate(entries): the loop, then prune(); an exception leaves the loop's work in place
hydrate(st, max, elements) ==
    LET looped == hydrateLoop(st, elements)
    IN  IF looped.threw THEN looped.store ELSE prune(looped.store, max)

\* load(): nothing when the file is absent; otherwise read, parse and hydrate inside
\* try { } catch { }, so that a throw is swallowed where it happens
load(st, max, f) ==
    IF f.tag = "absent" THEN st
    ELSE IF f.tag = "garbage" THEN st
    ELSE hydrate(st, max, IF f.isArray THEN f.captures ELSE <<>>)

\* new InMemoryCaptureStore(maxCaptures)
newInMemoryCaptureStore == EmptyStore

\* new FileCaptureStore(filePath, maxCaptures): super(maxCaptures); load()
newFileCaptureStore(max, f) == load(EmptyStore, max, f)

----------------------------------------------------------------------------
(* The store used as a library (captureStore.test.ts): what is added and    *)
(* what the file may hold before the first construction.                    *)

\* the entries the store is given: three ids, one of them with two different records
SampleEntries ==
    {StoredCapture(makeCapture("one", 200), makeReplay("{\"ok\":true}")),
     StoredCapture(makeCapture("one", 404), makeReplay(Undefined)),
     StoredCapture(makeCapture("two", 200), makeReplay(Undefined)),
     StoredCapture(makeCapture("capture-1", 200), makeReplay("{\"ok\":true}"))}

Pair(id, statusCode, body) ==
    stringifyEntry(StoredCapture(makeCapture(id, statusCode), makeReplay(body)))

\* null where a pair is expected
\* stands where an element has no record or no replay to read
Missing == [missing |-> TRUE]

NullElement == [shape |-> "null", record |-> Missing, replay |-> Missing]

\* a pair whose record has no id
NoIdElement ==
    [shape |-> "noid", record |-> makeCapture(Undefined, 200),
     replay |-> stringifyReplay(makeReplay(Undefined))]

\* documents whose captures list consists of record/replay pairs
WellFormedFiles ==
    {JsonFile(TRUE, <<>>),
     JsonFile(TRUE, <<Pair("one", 200, Undefined)>>),
     JsonFile(TRUE, <<Pair("two", 200, "{\"ok\":true}"), Pair("one", 200, Undefined)>>)}

\* files holding something else
MalformedFiles ==
    {GarbageFile,
     JsonFile(FALSE, <<>>),
     JsonFile(TRUE, <<NullElement>>),
     JsonFile(TRUE, <<NoIdElement>>),
     JsonFile(TRUE, <<Pair("one", 200, Undefined), NullElement>>),
     JsonFile(TRUE, <<Pair("two", 200, Undefined), Pair("one", 200, Undefined),
                      NullElement>>)}

InitialFiles == {AbsentFile} \cup WellFormedFiles \cup MalformedFiles

NoEntry == [record |-> Missing, replay |-> Missing]

ServerIdle ==
    /\ inflight = {}
    /\ calls = 0
    /\ reply = [handler |-> "none"]
    /\ nextId = 0

RedactionIdle ==
    /\ parsed = JsonNull
    /\ redacted = NotRedacted

\* no function is evaluated on its own
NoArgs == [fn |-> "none"]

NotReturned == [done |-> FALSE]

CallIdle ==
    /\ args = NoArgs
    /\ result = NotReturned

InitStore ==
    /\ mode \in {"memory", "file"}
    /\ maxCaptures \in 1..MaxN
    /\ file \in (IF mode = "file" THEN InitialFiles ELSE {AbsentFile})
    /\ captures = <<>>
    /\ byId = EmptyMap
    /\ phase = "down"
    /\ base = <<>>
    /\ adds = <<>>
    /\ pending = NoEntry
    /\ prev = EmptyStore
    /\ ServerIdle
    /\ RedactionIdle
    /\ CallIdle

\* the store the process constructs: new InMemoryCaptureStore(max) or
\* new FileCaptureStore(filePath, max)
Constructed ==
    IF mode = "file" THEN newFileCaptureStore(maxCaptures, file) ELSE newInMemoryCaptureStore

\* the process starts and constructs its store
Construct ==
    /\ phase = "down"
    /\ LET st == Constructed
       IN  /\ captures' = st.captures
           /\ byId' = st.byId
           /\ base' = st.captures
    /\ phase' = "constructed"
    /\ adds' = <<>>
    /\ UNCHANGED <<mode, maxCaptures, file, pending, prev, serverVars, redactionVars, callVars>>

\* a durable add that leaves the write of the file to a later moment
captureStoreAddUnsaved(st, f, record, replay) ==
    [store |-> add(st, maxCaptures, record, replay), file |-> f, returned |-> record]

\* a durable add that leaves the eviction to the next load
captureStoreAddUnpruned(st, f, record, replay) ==
    LET saved == IF mode = "file"
                 THEN addWithoutPrune(st, maxCaptures, record, replay)
                 ELSE add(st, maxCaptures, record, replay)
    IN  [store |-> saved, file |-> IF mode = "file" THEN persist(saved, f) ELSE f,
         returned |-> record]

\* add ends with the TypeError that snapshot() threw and returns nothing
AddThrew == [threw |-> "TypeError"]

\* captureStore.add(record, replay) on the store of the process: InMemoryCaptureStore.add,
\* and for the durable store FileCaptureStore.add, which persists after it; both
\* return the record they were given
captureStoreAdd(st, f, record, replay) ==
    LET saved == add(st, maxCaptures, record, replay)
    IN  [store |-> saved, file |-> IF mode = "file" THEN persist(saved, f) ELSE f,
         returned |-> IF mode = "file" /\ snapshotThrows(saved) THEN AddThrew ELSE record]

StoreAdd(entry) ==
    /\ phase \in {"constructed", "running", "reopened", "recovered", "resumed"}
    /\ Len(adds) < MaxAdds
    /\ LET added == captureStoreAdd(Store(captures, byId), file, entry.record, entry.replay)
       IN  /\ captures' = added.store.captures
           /\ byId' = added.store.byId
           /\ file' = added.file
    /\ adds' = Append(adds, entry)
    /\ phase' = IF phase \in {"constructed", "running"} THEN "running" ELSE "resumed"
    /\ UNCHANGED <<mode, maxCaptures, base, pending, prev, serverVars, redactionVars, callVars>>

\* a second FileCaptureStore is constructed on the same file with the same maximum
Reopen ==
    /\ mode = "file"
    /\ phase \in {"constructed", "running"}
    /\ prev' = Store(captures, byId)
    /\ LET st == newFileCaptureStore(maxCaptures, file)
       IN  /\ captures' = st.captures
           /\ byId' = st.byId
    /\ phase' = "reopened"
    /\ UNCHANGED <<mode, maxCaptures, file, base, adds, pending, serverVars, redactionVars, callVars>>

\* what a crash during writeFileSync can leave: the old content (nothing written
\* yet), a truncated or partly written text, or the new content
TornWrites(old, new) == IF new = old THEN {old} ELSE {old, GarbageFile, new}

\* the process dies inside FileCaptureStore.add(entry): before the write, during it
\* or after it; the memory of the process is gone
Crash(entry) ==
    /\ mode = "file"
    /\ phase \in {"constructed", "running"}
    /\ Len(adds) < MaxAdds
    /\ LET st == add(Store(captures, byId), maxCaptures, entry.record, entry.replay)
       IN  file' \in TornWrites(file, persist(st, file))
    /\ pending' = entry
    /\ captures' = <<>>
    /\ byId' = EmptyMap
    /\ phase' = "crashed"
    /\ UNCHANGED <<mode, maxCaptures, base, adds, prev, serverVars, redactionVars, callVars>>

\* the next startup after a crash
Recover ==
    /\ phase = "crashed"
    /\ LET st == newFileCaptureStore(maxCaptures, file)
       IN  /\ captures' = st.captures
           /\ byId' = st.byId
    /\ phase' = "recovered"
    /\ UNCHANGED <<mode, maxCaptures, file, base, adds, pending, prev, serverVars, redactionVars, callVars>>

\* a later FileCaptureStore is constructed on the same file with a lower maximum
ReopenLowered(max) ==
    /\ mode = "file"
    /\ phase \in {"constructed", "running"}
    /\ max < maxCaptures
    /\ maxCaptures' = max
    /\ prev' = Store(captures, byId)
    /\ LET st == newFileCaptureStore(max, file)
       IN  /\ captures' = st.captures
           /\ byId' = st.byId
    /\ phase' = "reopened"
    /\ UNCHANGED <<mode, file, base, adds, pending, serverVars, redactionVars, callVars>>

NextStore ==
    \/ Construct
    \/ \E entry \in SampleEntries : StoreAdd(entry)
    \/ Reopen
    \/ \E entry \in SampleEntries : Crash(entry)
    \/ Recover

SpecStore == InitStore /\ [][NextStore]_vars

\* the store as a library, where the maximum can be lowered between two constructions
NextLowered ==
    \/ NextStore
    \/ \E max \in 0..(MaxN - 1) : ReopenLowered(max)

SpecLowered == InitStore /\ [][NextLowered]_vars

----------------------------------------------------------------------------
(* The store with the loop of prune() taken one iteration at a time, for any *)
(* integer maximum. phase is "pruning" while the loop runs; prev is the      *)
(* store as the loop found it; pending is the entry of the add that called   *)
(* prune (none when the constructor's hydrate called it).                    *)

\* maxima a caller may pass: negative, zero, positive
SampleMaxima == {-1, 0, 1, 2}

InitPrune ==
    /\ mode \in {"memory", "file"}
    /\ maxCaptures \in SampleMaxima
    /\ file \in (IF mode = "file" THEN {AbsentFile} \cup WellFormedFiles ELSE {AbsentFile})
    /\ captures = <<>>
    /\ byId = EmptyMap
    /\ phase = "down"
    /\ base = <<>>
    /\ adds = <<>>
    /\ pending = NoEntry
    /\ prev = EmptyStore
    /\ ServerIdle
    /\ RedactionIdle
    /\ CallIdle

\* the constructor up to prune(): InMemoryCaptureStore's does not prune, nor does
\* load() on an absent file; otherwise hydrate() fills the store and calls prune()
ConstructToPrune ==
    /\ phase = "down"
    /\ LET loaded == IF mode = "file" /\ file.tag = "json"
                     THEN hydrateLoop(EmptyStore, IF file.isArray THEN file.captures ELSE <<>>).store
                     ELSE EmptyStore
       IN  /\ captures' = loaded.captures
           /\ byId' = loaded.byId
           /\ prev' = loaded
    /\ phase' = IF mode = "file" /\ file.tag = "json" THEN "pruning" ELSE "ready"
    /\ UNCHANGED <<mode, maxCaptures, file, base, adds, pending, serverVars, redactionVars, callVars>>

\* add up to prune(): captures.unshift(entry); byId.set(record.id, entry)
AddToPrune(entry) ==
    /\ phase = "ready"
    /\ Len(adds) < MaxAdds
    /\ captures' = <<entry>> \o captures
    /\ byId' = MapSet(byId, entry.record.id, entry)
    /\ prev' = Store(<<entry>> \o captures, MapSet(byId, entry.record.id, entry))
    /\ pending' = entry
    /\ adds' = Append(adds, entry)
    /\ phase' = "pruning"
    /\ UNCHANGED <<mode, maxCaptures, file, base, serverVars, redactionVars, callVars>>

\* Array.prototype.pop: the array without its last element; an empty array stays
\* empty (and pop returns undefined)
popped(array) == IF array = <<>> THEN array ELSE SubSeq(array, 1, Len(array) - 1)

\* one iteration of while (captures.length > maxCaptures) { removed = captures.pop();
\* if (removed) byId.delete(removed.record.id) }
PruneIteration ==
    /\ phase = "pruning"
    /\ Len(captures) > maxCaptures
    /\ captures' = popped(captures)
    /\ byId' = IF captures = <<>> THEN byId
               ELSE MapDelete(byId, captures[Len(captures)].record.id)
    /\ UNCHANGED <<mode, maxCaptures, file, phase, base, adds, pending, prev, serverVars,
                   redactionVars, callVars>>

\* the loop condition is false: prune() returns, and so does its caller (a durable
\* add after persist())
PruneReturns ==
    /\ phase = "pruning"
    /\ ~(Len(captures) > maxCaptures)
    /\ phase' = "ready"
    /\ file' = IF mode = "file" /\ pending # NoEntry THEN persist(Store(captures, byId), file)
               ELSE file
    /\ pending' = NoEntry
    /\ UNCHANGED <<mode, maxCaptures, captures, byId, base, adds, prev, serverVars,
                   redactionVars, callVars>>

NextPrune ==
    \/ ConstructToPrune
    \/ \E entry \in SampleEntries : AddToPrune(entry)
    \/ PruneIteration
    \/ PruneReturns

SpecPrune == InitPrune /\ [][NextPrune]_vars

----------------------------------------------------------------------------
(* Claims about the store. *)

RecordsOf(entries) == [i \in DOMAIN entries |-> entries[i].record]

IdsOf(entries) == [i \in DOMAIN entries |-> entries[i].record.id]

Distinct(seq) == \A i, j \in DOMAIN seq : i # j => seq[i] # seq[j]

\* every id the model ever hands to a store
AllIds == {e.record.id : e \in SampleEntries} \cup {Undefined}

FoundByGet(st) == {id \in AllIds : get(st, id).found}

FoundByGetReplaySource(st) == {id \in AllIds : getReplaySource(st, id).found}

Current == Store(captures, byId)

\* the store was constructed empty and has only been added to since
AddedFromEmpty == phase \in {"constructed", "running"} /\ base = <<>>

\* C1: on an initially empty store with maximum N, after k adds with pairwise
\* distinct ids list() has length min(k, N) and is the min(k, N) most recently added
\* records, newest first.
C1_ListIsNewestFirst ==
    (AddedFromEmpty /\ Distinct(IdsOf(adds)))
        => /\ Len(list(Current)) = Min(Len(adds), maxCaptures)
           /\ list(Current) = Take(Reverse(RecordsOf(adds)), maxCaptures)

\* C1 witness: more distinct adds than the maximum, so that an eviction happened
C1_Witness ==
    AddedFromEmpty /\ Distinct(IdsOf(adds)) /\ Len(adds) > maxCaptures

\* C2: after adds with pairwise distinct ids, get and getReplaySource find exactly
\* the ids of the records in list(); an evicted id is found by neither.
C2_IndexMatchesList ==
    (AddedFromEmpty /\ Distinct(IdsOf(adds)))
        => /\ FoundByGet(Current) = Range(IdsOf(captures))
           /\ FoundByGetReplaySource(Current) = Range(IdsOf(captures))
           /\ \A i \in DOMAIN adds :
                  adds[i].record \notin Range(list(Current))
                      => /\ get(Current, adds[i].record.id) = NotFound
                         /\ getReplaySource(Current, adds[i].record.id) = NotFound

\* C2 witness: an id was evicted and another one is retained
C2_Witness ==
    /\ AddedFromEmpty /\ Distinct(IdsOf(adds))
    /\ Len(adds) > maxCaptures
    /\ get(Current, adds[1].record.id) = NotFound
    /\ get(Current, adds[Len(adds)].record.id) = Found(adds[Len(adds)].record)

\* a second store, opened on the file of a store that was constructed empty
ReopenedAfterAdds == phase = "reopened" /\ base = <<>> /\ adds # <<>>

\* C3: a FileCaptureStore constructed on the file of another one, with the same
\* maximum, returns the same list() and the same get(id) and getReplaySource(id) for
\* every id as the first store did after its last add.
C3_RoundTrip ==
    ReopenedAfterAdds
        => /\ list(Current) = list(prev)
           /\ \A id \in AllIds :
                  /\ get(Current, id) = get(prev, id)
                  /\ getReplaySource(Current, id) = getReplaySource(prev, id)

\* C4: a FileCaptureStore constructed on a file that is absent, unparsable or
\* malformed in any way is empty: list() is empty and no id is found.
C4_MalformedFileStartsEmpty ==
    (phase = "constructed" /\ mode = "file" /\ file \in {AbsentFile} \cup MalformedFiles)
        => /\ captures = <<>>
           /\ FoundByGet(Current) = {}
           /\ FoundByGetReplaySource(Current) = {}

\* C5: after a crash at any point of a durable add, the store of the next startup
\* holds every record whose add had completed (up to the maximum): its list() is
\* that of the completed adds, or that of the completed adds and the interrupted one.
C5_CrashLosesAtMostOneAdd ==
    (phase = "recovered" /\ base = <<>>)
        => \/ list(Current) = Take(Reverse(RecordsOf(adds)), maxCaptures)
           \/ list(Current) = Take(Reverse(RecordsOf(Append(adds, pending))), maxCaptures)

----------------------------------------------------------------------------
(* index.ts: strings, headers and URLs. Strings that the code takes apart   *)
(* (paths) are sequences of characters; a URL is the record of the parts    *)
(* that new URL(..) yields and toString() puts together again.              *)

\* String.prototype.toUpperCase, on the method spellings of the model
toUpperCase(s) ==
    CASE s = "get" -> "GET"
      [] s = "head" -> "HEAD"
      [] s = "post" -> "POST"
      [] OTHER -> s

\* String.prototype.toLowerCase, on the header names of the model
toLowerCase(s) ==
    CASE s = "Authorization" -> "authorization"
      [] s = "Host" -> "host"
      [] s = "X-Api-Key" -> "x-api-key"
      [] s = "X-Trace" -> "x-trace"
      [] OTHER -> s

hopByHopHeaders ==
    {"connection", "content-length", "host", "transfer-encoding", "x-proxylab-target"}

joinPath(basePath, suffix) ==
    LET left == IF Len(basePath) > 0 /\ basePath[Len(basePath)] = "/"
                THEN SubSeq(basePath, 1, Len(basePath) - 1)
                ELSE basePath
        right == IF Len(suffix) > 0 /\ suffix[1] = "/" THEN suffix ELSE <<"/">> \o suffix
    IN  IF Len(left) = 0 THEN right ELSE left \o right

\* a header value is a string, or undefined; the string[] values that Node gives
\* for a few repeated headers are not in the model
normalizeHeaders(headers) ==
    [key \in {k \in DOMAIN headers :
                  toLowerCase(k) \notin hopByHopHeaders /\ headers[k] # Undefined}
        |-> headers[key]]

\* toRawBody on the bodies of the model: undefined and null give undefined, a
\* string is kept (the body parser's objects are kept as their JSON text)
toRawBody(body) == IF body \in {Undefined, Null} THEN Undefined ELSE body

Url(origin, pathname, search) == [origin |-> origin, pathname |-> pathname, search |-> search]

ApiOrigin == "https://api.example.com"

\* new URL(raw) for the targets of the model; anything else throws
ParsedTargets ==
    ("https://api.example.com" :> Url(ApiOrigin, <<"/">>, <<>>)) @@
    ("https://api.example.com/base/" :> Url(ApiOrigin, <<"/", "b", "a", "s", "e", "/">>, <<>>))

\* searchParams.get("target"): the first value of the key, or null
RECURSIVE searchParamsGet(_, _)
searchParamsGet(search, key) ==
    IF search = <<>> THEN Null
    ELSE IF Head(search)[1] = key THEN Head(search)[2]
    ELSE searchParamsGet(Tail(search), key)

IsForwardedParam(param) == param[1] # "target"

\* a failed step of a handler
Thrown(message) == [ok |-> FALSE, message |-> message]

Returned(value) == [ok |-> TRUE, value |-> value]

\* a target resolver that falls back to the proxy's own origin
buildReplaySourceFromRequestDefaulting(request, uuid) ==
    Returned([id |-> uuid, method |-> toUpperCase(request.method),
              path |-> <<"/">> \o request.params,
              targetUrl |-> Url(ApiOrigin, joinPath(<<"/">>, request.params), <<>>),
              headers |-> normalizeHeaders(request.headers),
              body |-> toRawBody(request.body)])

\* request: [method, params (the wildcard sub-path), search (the query of request.url),
\* headers, body]; uuid: the value randomUUID() returns
buildReplaySourceFromRequest(request, uuid) ==
    LET targetFromHeader == IF "x-proxylab-target" \in DOMAIN request.headers
                            THEN request.headers["x-proxylab-target"]
                            ELSE Undefined
        targetFromQuery == searchParamsGet(request.search, "target")
        rawTarget == IF targetFromHeader # Undefined THEN targetFromHeader ELSE targetFromQuery
    IN  IF rawTarget \in {Null, ""}
        THEN Thrown("Missing target URL. Set x-proxylab-target header or target query.")
        ELSE IF rawTarget \notin DOMAIN ParsedTargets
        THEN Thrown("Invalid URL")
        ELSE LET baseTarget == ParsedTargets[rawTarget]
             IN  Returned([id |-> uuid,
                           method |-> toUpperCase(request.method),
                           path |-> <<"/">> \o request.params,
                           targetUrl |-> Url(baseTarget.origin,
                                             joinPath(baseTarget.pathname, request.params),
                                             baseTarget.search
                                                 \o SelectSeq(request.search, IsForwardedParam)),
                           headers |-> normalizeHeaders(request.headers),
                           body |-> toRawBody(request.body)])

\* a call that forwards the authorization header masked
proxyToTargetRedacted(replay) ==
    [targetUrl |-> replay.targetUrl,
     method |-> toUpperCase(replay.method),
     headers |-> [key \in DOMAIN replay.headers |->
                      IF key = "authorization" THEN "[REDACTED]" ELSE replay.headers[key]],
     body |-> IF replay.method = "GET" \/ replay.method = "HEAD" THEN Undefined ELSE replay.body]

\* the arguments of fetchImpl(replay.targetUrl, {method, headers, body})
proxyToTarget(replay) ==
    [targetUrl |-> replay.targetUrl,
     method |-> toUpperCase(replay.method),
     headers |-> replay.headers,
     body |-> IF replay.method = "GET" \/ replay.method = "HEAD" THEN Undefined ELSE replay.body]

----------------------------------------------------------------------------
(* redaction.ts, on the header names and bodies of the model. *)

REDACTION_TOKEN == "[REDACTED]"

\* the header names of the model that one of sensitiveHeaderPatterns matches
\* (/authorization/i, /cookie/i, /token/i, /api[-_]?key/i, /secret/i)
shouldRedact(key) ==
    toLowerCase(key) \in {"authorization", "cookie", "set-cookie", "x-api-key"}

\* a redaction that knows the sensitive names in lower case only
redactHeadersLowerCase(headers) ==
    [key \in {k \in DOMAIN headers : headers[k] \notin {Undefined, ""}}
        |-> IF key \in {"authorization", "cookie", "set-cookie", "x-api-key"}
            THEN REDACTION_TOKEN ELSE headers[key]]

redactHeaders(headers) ==
    [key \in {k \in DOMAIN headers : headers[k] \notin {Undefined, ""}}
        |-> IF shouldRedact(key) THEN REDACTION_TOKEN ELSE headers[key]]

\* sensitiveFieldPattern.test(key), on the keys of the model:
\* /(token|secret|password|authorization|api[-_]?key|session|cookie)/i
sensitiveFieldPatternTest(key) == key \in {"apiKey", "password", "access_token"}

\* copy[key] = value on an object created by {}: an own property is defined or
\* updated, except that the key __proto__ reaches the accessor of Object.prototype,
\* which sets the prototype (or ignores a value that is no object) and defines no
\* own property
assign(copy, key, value) ==
    IF key = "__proto__" THEN copy
    ELSE IF \E i \in DOMAIN copy : copy[i][1] = key
    THEN [i \in DOMAIN copy |-> IF copy[i][1] = key THEN <<key, value>> ELSE copy[i]]
    ELSE Append(copy, <<key, value>>)

RECURSIVE redactJsonObject(_, _)
RECURSIVE redactEntries(_, _, _)
\* the loop of redactJsonObject over Object.entries(record), filling copy
redactEntries(entries, copy, parentKey) ==
    IF entries = <<>> THEN copy
    ELSE LET key == Head(entries)[1]
             nested == Head(entries)[2]
         IN  redactEntries(Tail(entries),
                           IF sensitiveFieldPatternTest(key) \/ sensitiveFieldPatternTest(parentKey)
                           THEN assign(copy, key, JsonString(REDACTION_TOKEN))
                           ELSE assign(copy, key, redactJsonObject(nested, key)),
                           parentKey)

redactJsonObject(value, parentKey) ==
    IF value.t = "array"
    THEN JsonArray([i \in DOMAIN value.v |-> redactJsonObject(value.v[i], parentKey)])
    ELSE IF value.t = "object"
    THEN JsonObject(redactEntries(value.v, <<>>, parentKey))
    ELSE IF value.t = "string" /\ sensitiveFieldPatternTest(parentKey)
    THEN JsonString(REDACTION_TOKEN)
    ELSE value

SecretJson == "{\"prompt\":\"hello\",\"apiKey\":\"sk-live-key\",\"sessionId\":\"s-1\"}"

\* the same document with other values under its sensitive keys
OtherSecretJson == "{\"prompt\":\"hello\",\"apiKey\":\"sk-test-key\",\"sessionId\":\"s-2\"}"

OkJson == "{\"ok\":true}"

\* JSON.stringify(redactJsonObject(JSON.parse(body)), null, 2) for the JSON bodies of
\* the model
RedactedJson ==
    (SecretJson :> "{\n  \"prompt\": \"hello\",\n  \"apiKey\": \"[REDACTED]\",\n  \"sessionId\": \"[REDACTED]\"\n}") @@
    (OtherSecretJson :> "{\n  \"prompt\": \"hello\",\n  \"apiKey\": \"[REDACTED]\",\n  \"sessionId\": \"[REDACTED]\"\n}") @@
    (OkJson :> "{\n  \"ok\": true\n}")

\* body.replace(/(bearer\s+)[^\s"']+/gi, ..).replace(/(["']?(token|secret|password|
\* api[_-]?key)["']?\s*[:=]\s*["'])[^"']*(["'])/gi, ..) for the bodies of the model: the
\* second pattern matches "apiKey":"..." and nothing else in them (sessionId is not among
\* its names)
RedactedText ==
    (SecretJson :> "{\"prompt\":\"hello\",\"apiKey\":\"[REDACTED]\",\"sessionId\":\"s-1\"}") @@
    (OtherSecretJson :> "{\"prompt\":\"hello\",\"apiKey\":\"[REDACTED]\",\"sessionId\":\"s-2\"}")

redactText(body) == IF body \in DOMAIN RedactedText THEN RedactedText[body] ELSE body

redactBody(body, contentType) ==
    IF body \in {Undefined, ""} THEN Null
    ELSE IF contentType = "application/json" /\ body \in DOMAIN RedactedJson
    THEN RedactedJson[body]
    ELSE redactText(body)

\* Buffer.byteLength of the bodies of the model, which are ASCII
byteLength(body) == Len(body)

\* headers["content-type"]
contentTypeOf(headers) ==
    IF "content-type" \in DOMAIN headers THEN headers["content-type"] ELSE Undefined

----------------------------------------------------------------------------
(* index.ts: withCapture and the replay merge. *)

\* randomUUID(): a fresh value at every draw, here the n-th one drawn for a record
uuid(n) == "uuid-" \o ToString(n)

\* the one drawn for the ReplaySource of the n-th call
sourceUuid(n) == "uuid-source-" \o ToString(n)

\* the CaptureRecord that withCapture builds; response: [statusCode, headers, body];
\* replayOf: the replayed id, or undefined for a proxied call
captureRecord(replay, response, replayOf, id) ==
    LET responseBody == IF response.body = Undefined THEN "" ELSE response.body
    IN  [id |-> id,
         replayOf |-> IF replayOf = Undefined THEN Null ELSE replayOf,
         method |-> toUpperCase(replay.method),
         targetUrl |-> replay.targetUrl,
         path |-> replay.path,
         statusCode |-> response.statusCode,
         request |-> CapturePayload(redactHeaders(replay.headers),
                                    redactBody(replay.body, contentTypeOf(replay.headers)),
                                    IF replay.body \in {Undefined, ""} THEN 0
                                    ELSE byteLength(replay.body)),
         response |-> CapturePayload(redactHeaders(response.headers),
                                     redactBody(responseBody, contentTypeOf(response.headers)),
                                     byteLength(responseBody))]

\* an optional value: absent, or given
Absent == [given |-> FALSE]

Given(value) == [given |-> TRUE, value |-> value]

\* payload.overrides: method and body are a string or undefined (body also null),
\* targetUrl is optional, headers is the map given, or the empty one
Overrides(method, targetUrl, headers, body) ==
    [method |-> method, targetUrl |-> targetUrl, headers |-> headers, body |-> body]

NoOverrides == Overrides(Undefined, Absent, EmptyMap, Undefined)

\* a merge that takes the stored value wherever the override is falsy
mergedReplayFalsy(source, overrides) ==
    [id |-> source.id,
     path |-> source.path,
     method |-> IF overrides.method \notin {Undefined, ""} THEN toUpperCase(overrides.method)
                ELSE source.method,
     targetUrl |-> IF overrides.targetUrl.given THEN overrides.targetUrl.value
                   ELSE source.targetUrl,
     headers |-> Spread(source.headers, overrides.headers),
     body |-> IF overrides.body = Null THEN Undefined
              ELSE IF overrides.body \notin {Undefined, ""} THEN overrides.body
              ELSE source.body]

\* const replay = { ...source, method, targetUrl, headers, body }
mergedReplay(source, overrides) ==
    [id |-> source.id,
     path |-> source.path,
     method |-> IF overrides.method # Undefined THEN toUpperCase(overrides.method)
                ELSE source.method,
     targetUrl |-> IF overrides.targetUrl.given THEN overrides.targetUrl.value
                   ELSE source.targetUrl,
     headers |-> Spread(source.headers, overrides.headers),
     body |-> IF overrides.body = Null THEN Undefined
              ELSE IF overrides.body # Undefined THEN overrides.body
              ELSE source.body]

\* a merge that assigns the overrides to the stored source itself
replayMergeInPlace(st, source, overrides) ==
    LET merged == mergedReplay(source, overrides)
        assigned(entry) == IF entry.replay = source
                           THEN StoredCapture(entry.record, merged)
                           ELSE entry
    IN  [replay |-> merged,
         store |-> Store([i \in DOMAIN st.captures |-> assigned(st.captures[i])],
                         [id \in DOMAIN st.byId |-> assigned(st.byId[id])])]

\* the replay handler from the lookup to the call: the merged ReplaySource is a new
\* object built by spreading the stored source, which stays as it is in the store
replayMerge(st, source, overrides) ==
    [replay |-> mergedReplay(source, overrides), store |-> st]

----------------------------------------------------------------------------
(* The server (buildServer): the proxy and replay handlers. A handler runs  *)
(* up to its await of proxyToTarget in one step and from there to its       *)
(* answer in another; between the two its call is in flight.                *)

SampleRequests ==
    {\* the request of proxyCapture.test.ts: target in the query
     [method |-> "POST", params |-> <<"v", "1">>,
      search |-> <<<<"target", "https://api.example.com">>>>,
      headers |-> ("authorization" :> "Bearer very-secret-token") @@
                  ("content-type" :> "application/json") @@ ("host" :> "localhost:80") @@
                  ("X-Api-Key" :> "pk-live-1") @@ ("x-trace" :> ""),
      body |-> SecretJson],
     \* no target
     [method |-> "GET", params |-> <<>>, search |-> <<<<"page", "2">>>>,
      headers |-> ("host" :> "localhost:80"), body |-> Undefined],
     \* a target that is no absolute URL
     [method |-> "POST", params |-> <<"v", "1">>, search |-> <<<<"target", "/relative">>>>,
      headers |-> ("host" :> "localhost:80"), body |-> OkJson],
     \* an empty target header beside a usable query target
     [method |-> "GET", params |-> <<>>,
      search |-> <<<<"target", "https://api.example.com">>>>,
      headers |-> ("x-proxylab-target" :> ""), body |-> Undefined]}

SampleOverrides ==
    {NoOverrides,
     Overrides("get", Absent, "content-type" :> "text/plain", Undefined),
     Overrides(Undefined, Absent,
               ("authorization" :> "Bearer other") @@ ("Host" :> "internal.example.com"), Null)}

\* what the upstream of the model answers to a call it receives (status, headers, body
\* text): like the fetchMock of proxyCapture.test.ts a function of the call, 200 with
\* a JSON body to a call with a body and 500 with no body to one without
UpstreamResponses(sent) ==
    IF sent.body # Undefined
    THEN {[statusCode |-> 200,
           headers |-> ("content-type" :> "application/json") @@ ("x-upstream" :> "mock") @@
                       ("set-cookie" :> "sid=1"),
           body |-> OkJson]}
    ELSE {[statusCode |-> 500, headers |-> ("content-type" :> "text/plain"), body |-> ""]}

\* the ids a client may ask to replay: every record id drawn so far, every id the
\* store holds, an id never drawn, the empty string, and no id at all
ReplayIds == {uuid(n) : n \in 1..nextId} \cup DOMAIN byId \cup {"unknown", "", Undefined}

\* the payloads of the replay requests: every id with no overrides, and every id
\* the store holds with each of the overrides
ReplayPayloads ==
    {[id |-> id, overrides |-> NoOverrides] : id \in ReplayIds}
        \cup {[id |-> id, overrides |-> overrides] : id \in DOMAIN byId,
                                                     overrides \in SampleOverrides}

\* buildServer(): captureStore = options.captureStore ?? new InMemoryCaptureStore()
Init ==
    /\ mode = "memory"
    /\ maxCaptures \in 1..MaxN
    /\ file = AbsentFile
    /\ captures = Constructed.captures
    /\ byId = Constructed.byId
    /\ phase = "serving"
    /\ base = <<>>
    /\ adds = <<>>
    /\ pending = NoEntry
    /\ prev = EmptyStore
    /\ ServerIdle
    /\ RedactionIdle
    /\ CallIdle

\* the last step of a handler: an answer (reply.code(statusCode).send(content)), or a
\* call issued and awaited
Answered(handler, statusCode, content) ==
    [handler |-> handler, step |-> "answered", statusCode |-> statusCode, content |-> content]

Issued(handler) == [handler |-> handler, step |-> "issued"]

\* a call in flight: the ReplaySource the handler holds, the id it replays (undefined
\* for a proxied call) and the arguments fetchImpl was called with
Call(no, kind, replay, replayOf) ==
    [no |-> no, kind |-> kind, replay |-> replay, replayOf |-> replayOf,
     sent |-> proxyToTarget(replay)]

\* app.all("/proxy/*"), up to the await of proxyToTarget
ProxyRequest(request) ==
    /\ phase = "serving"
    /\ LET built == buildReplaySourceFromRequest(request, sourceUuid(calls + 1))
       IN  IF ~built.ok
           THEN /\ reply' = Answered("proxy", 400, [error |-> built.message])
                /\ UNCHANGED <<inflight, calls>>
           ELSE /\ calls < MaxCalls
                /\ LET call == Call(calls + 1, "proxy", built.value, Undefined)
                   IN  /\ inflight' = inflight \cup {call}
                       /\ reply' = Issued("proxy")
                /\ calls' = calls + 1
    /\ UNCHANGED <<storeVars, nextId, histVars, redactionVars, callVars>>

\* app.post("/api/replay"), up to the await of proxyToTarget; payload: [id, overrides]
ReplayRequest(payload) ==
    /\ phase = "serving"
    /\ IF payload.id \in {Undefined, ""}
       THEN /\ reply' = Answered("replay", 400, [error |-> "Replay id is required"])
            /\ UNCHANGED <<captures, byId, inflight, calls>>
       ELSE IF ~getReplaySource(Store(captures, byId), payload.id).found
       THEN /\ reply' = Answered("replay", 404, [error |-> "Capture not found"])
            /\ UNCHANGED <<captures, byId, inflight, calls>>
       ELSE /\ calls < MaxCalls
            /\ LET source == getReplaySource(Store(captures, byId), payload.id).value
                   merge == replayMerge(Store(captures, byId), source, payload.overrides)
                   call == Call(calls + 1, "replay", merge.replay, payload.id)
               IN  /\ captures' = merge.store.captures
                   /\ byId' = merge.store.byId
                   /\ inflight' = inflight \cup {call}
                   /\ reply' = Issued("replay")
            /\ calls' = calls + 1
    /\ UNCHANGED <<mode, maxCaptures, file, nextId, histVars, redactionVars, callVars>>

\* withCapture(captureStore, replay, response): the record, and the store and the
\* file after captureStore.add(record, replay)
withCapture(st, f, replay, response, replayOf, id) ==
    LET record == captureRecord(replay, response, replayOf, id)
        added == captureStoreAdd(st, f, record, replay)
    IN  [record |-> record, store |-> added.store, file |-> added.file]

\* the headers a proxied answer relays
relayedHeaders(headers) ==
    [key \in {k \in DOMAIN headers : toLowerCase(k) \notin hopByHopHeaders} |-> headers[key]]

\* a completion that looks the replayed capture up again and gives up when it is gone
UpstreamRespondsRereading(call, response) ==
    /\ phase = "serving"
    /\ call \in inflight
    /\ IF call.kind = "replay" /\ ~getReplaySource(Store(captures, byId), call.replayOf).found
       THEN /\ reply' = Answered("replay", 404, [error |-> "Capture not found"])
            /\ UNCHANGED <<captures, byId, file, nextId>>
       ELSE LET captured == withCapture(Store(captures, byId), file, call.replay, response,
                                        call.replayOf, uuid(nextId + 1))
            IN  /\ captures' = captured.store.captures
                /\ byId' = captured.store.byId
                /\ file' = captured.file
                /\ nextId' = nextId + 1
                /\ reply' = IF call.kind = "replay"
                            THEN Answered("replay", 200, [item |-> captured.record])
                            ELSE Answered("proxy", response.statusCode,
                                          [headers |-> relayedHeaders(response.headers),
                                           body |-> response.body])
    /\ inflight' = inflight \ {call}
    /\ UNCHANGED <<mode, maxCaptures, calls, histVars, redactionVars, callVars>>

\* the upstream's response was read in full: the handler records the exchange and
\* answers
UpstreamResponds(call, response) ==
    /\ phase = "serving"
    /\ call \in inflight
    /\ LET captured == withCapture(Store(captures, byId), file, call.replay, response,
                                   call.replayOf, uuid(nextId + 1))
       IN  /\ captures' = captured.store.captures
           /\ byId' = captured.store.byId
           /\ file' = captured.file
           /\ reply' = IF call.kind = "replay"
                       THEN Answered("replay", 200, [item |-> captured.record])
                       ELSE Answered("proxy", response.statusCode,
                                     [headers |-> relayedHeaders(response.headers),
                                      body |-> response.body])
    /\ inflight' = inflight \ {call}
    /\ nextId' = nextId + 1
    /\ UNCHANGED <<mode, maxCaptures, calls, histVars, redactionVars, callVars>>

\* a failure handler that records the failed attempt as a 502 exchange
UpstreamFailsRecorded(call) ==
    /\ phase = "serving"
    /\ call \in inflight
    /\ LET captured == withCapture(Store(captures, byId), file, call.replay,
                                   [statusCode |-> 502, headers |-> EmptyMap, body |-> ""],
                                   call.replayOf, uuid(nextId + 1))
       IN  /\ captures' = captured.store.captures
           /\ byId' = captured.store.byId
           /\ file' = captured.file
    /\ reply' = IF call.kind = "proxy"
                THEN Answered("proxy", 502, [error |-> "Failed to reach target API"])
                ELSE Answered("replay", 500, [error |-> "fetch failed"])
    /\ inflight' = inflight \ {call}
    /\ nextId' = nextId + 1
    /\ UNCHANGED <<mode, maxCaptures, calls, histVars, redactionVars, callVars>>

\* a failure handler that issues the call once more
UpstreamFailsRetried(call) ==
    /\ phase = "serving"
    /\ call \in inflight
    /\ calls < MaxCalls
    /\ calls' = calls + 1
    /\ UNCHANGED <<storeVars, inflight, reply, nextId, histVars, redactionVars, callVars>>

\* fetchImpl or upstream.text() threw: the proxy handler catches it and answers 502;
\* the replay handler has no catch, and the framework answers 500
UpstreamFails(call) ==
    /\ phase = "serving"
    /\ call \in inflight
    /\ reply' = IF call.kind = "proxy"
                THEN Answered("proxy", 502, [error |-> "Failed to reach target API"])
                ELSE Answered("replay", 500, [error |-> "fetch failed"])
    /\ inflight' = inflight \ {call}
    /\ UNCHANGED <<storeVars, calls, nextId, histVars, redactionVars, callVars>>

Next ==
    \/ \E request \in SampleRequests : ProxyRequest(request)
    \/ \E payload \in ReplayPayloads : ReplayRequest(payload)
    \/ \E call \in inflight : \E response \in UpstreamResponses(call.sent) :
           UpstreamResponds(call, response)
    \/ \E call \in inflight : UpstreamFails(call)

Spec == Init /\ [][Next]_vars

\* buildServer({ captureStore: new FileCaptureStore(filePath, maxCaptures) }), on a
\* path where no file is yet
InitDurable ==
    /\ mode = "file"
    /\ maxCaptures \in 1..MaxN
    /\ file = AbsentFile
    /\ captures = Constructed.captures
    /\ byId = Constructed.byId
    /\ phase = "serving"
    /\ base = <<>>
    /\ adds = <<>>
    /\ pending = NoEntry
    /\ prev = EmptyStore
    /\ ServerIdle
    /\ RedactionIdle
    /\ CallIdle

SpecDurable == InitDurable /\ [][Next]_vars

\* a persistence file whose one pair holds a ReplaySource with a lower-case method and
\* a body, as another writer or an editor may leave it (load() checks no field)
ReloadedFile ==
    JsonFile(TRUE, <<stringifyEntry(StoredCapture(makeCapture("capture-1", 200),
                                                  [makeReplay(OkJson) EXCEPT !.method = "get"]))>>)

\* buildServer({ captureStore: new FileCaptureStore(filePath, maxCaptures) }) on that file
InitReloaded ==
    /\ mode = "file"
    /\ maxCaptures \in 1..MaxN
    /\ file = ReloadedFile
    /\ captures = Constructed.captures
    /\ byId = Constructed.byId
    /\ phase = "serving"
    /\ base = <<>>
    /\ adds = <<>>
    /\ pending = NoEntry
    /\ prev = EmptyStore
    /\ ServerIdle
    /\ RedactionIdle
    /\ CallIdle

SpecReloaded == InitReloaded /\ [][Next]_vars

\* the upstream's response was read in full and withCapture runs, but writeFileSync
\* (or mkdirSync) throws inside persist(): super.add has already changed the memory,
\* the file is as it was or holds a partial text, and the exception leaves add and
\* withCapture; the proxy handler catches it as it catches a failed call, the replay
\* handler does not
UpstreamRespondsWriteFails(call, response) ==
    /\ phase = "serving"
    /\ mode = "file"
    /\ call \in inflight
    /\ LET record == captureRecord(call.replay, response, call.replayOf, uuid(nextId + 1))
           saved == add(Store(captures, byId), maxCaptures, record, call.replay)
       IN  /\ captures' = saved.captures
           /\ byId' = saved.byId
    /\ file' \in {file, GarbageFile}
    /\ reply' = IF call.kind = "proxy"
                THEN Answered("proxy", 502, [error |-> "Failed to reach target API"])
                ELSE Answered("replay", 500, [error |-> "write failed"])
    /\ inflight' = inflight \ {call}
    /\ nextId' = nextId + 1
    /\ UNCHANGED <<mode, maxCaptures, calls, histVars, redactionVars, callVars>>

NextWriteFailure ==
    \/ Next
    \/ \E call \in inflight : \E response \in UpstreamResponses(call.sent) :
           UpstreamRespondsWriteFails(call, response)

\* the server over a durable store whose file writes can fail
SpecWriteFailure == InitDurable /\ [][NextWriteFailure]_vars

----------------------------------------------------------------------------
(* redactBody on JSON bodies with a JSON content type: JSON.parse(body), then *)
(* redactJsonObject, then JSON.stringify, which writes the own enumerable     *)
(* properties of every object in their order. The bodies of the model have    *)
(* no duplicate keys and no integer-like keys, so that the properties of a    *)
(* parsed object are the members of the text, in the order of the text.       *)

SampleKeys == {"prompt", "apiKey", "password", "access_token", "items", "__proto__"}

SampleLeaves == {JsonString("hello"), JsonNumber(7), JsonNull}

\* values one level deep: a leaf, an array of leaves or an object with one field
SampleNested ==
    SampleLeaves
    \cup {JsonArray(<<a, b>>) : a, b \in {JsonString("hello"), JsonNumber(7)}}
    \cup {JsonObject(<<<<key, leaf>>>>) : key \in SampleKeys, leaf \in {JsonString("hello"), JsonNumber(7)}}

\* the documents: an object with one field or with the field prompt and another,
\* and an array holding such an object
SampleDocuments ==
    {JsonObject(<<<<key, value>>>>) : key \in SampleKeys, value \in SampleNested}
    \cup {JsonObject(<<<<key, value>>, <<"prompt", JsonString("hi")>>>>) :
              key \in SampleKeys \ {"prompt"}, value \in SampleLeaves}
    \cup {JsonArray(<<JsonObject(<<<<key, value>>>>), JsonNumber(7)>>) :
              key \in SampleKeys, value \in SampleLeaves}

InitRedact ==
    /\ mode = "memory"
    /\ maxCaptures = 1
    /\ file = AbsentFile
    /\ captures = <<>>
    /\ byId = EmptyMap
    /\ phase = "redacting"
    /\ base = <<>>
    /\ adds = <<>>
    /\ pending = NoEntry
    /\ prev = EmptyStore
    /\ ServerIdle
    /\ parsed \in SampleDocuments
    /\ redacted = NotRedacted
    /\ CallIdle

\* redactJsonObject(parsed): the value that redactBody hands to JSON.stringify
RedactJson ==
    /\ phase = "redacting"
    /\ redacted = NotRedacted
    /\ redacted' = redactJsonObject(parsed, "")
    /\ UNCHANGED <<storeVars, histVars, serverVars, parsed, callVars>>

NextRedact == RedactJson

SpecRedact == InitRedact /\ [][NextRedact]_vars

----------------------------------------------------------------------------
(* Functions of index.ts evaluated on their own: args holds the arguments,  *)
(* result what the function returned.                                       *)

\* everything but args and result, as in a process that serves nothing
NothingElse ==
    /\ mode = "memory"
    /\ maxCaptures = 1
    /\ file = AbsentFile
    /\ captures = <<>>
    /\ byId = EmptyMap
    /\ phase = "evaluating"
    /\ base = <<>>
    /\ adds = <<>>
    /\ pending = NoEntry
    /\ prev = EmptyStore
    /\ ServerIdle
    /\ RedactionIdle

ReturnedValue(value) == [done |-> TRUE, value |-> value]

\* stored sources: with a body, with an empty one and with none
SampleSources ==
    {[makeReplay(body) EXCEPT !.method = method, !.headers = headers] :
        body \in {SecretJson, "", Undefined},
        method \in {"POST", "GET"},
        headers \in {JsonContentType,
                     JsonContentType @@ ("authorization" :> "Bearer very-secret-token")}}

\* payload.overrides of a replay request: each field given, empty or left out
MergeOverrides ==
    {Overrides(method, targetUrl, headers, body) :
        method \in {Undefined, "get", ""},
        targetUrl \in {Absent, Given("https://other.example.com/v2")},
        headers \in {EmptyMap, "content-type" :> "text/plain", "x-new" :> "1"},
        body \in {Undefined, Null, "", OkJson}}

InitMerge ==
    /\ NothingElse
    /\ args \in {[fn |-> "mergedReplay", source |-> source, overrides |-> overrides] :
                    source \in SampleSources, overrides \in MergeOverrides}
    /\ result = NotReturned

\* the replay handler builds the merged ReplaySource
Merge ==
    /\ args.fn = "mergedReplay"
    /\ result = NotReturned
    /\ result' = ReturnedValue(mergedReplay(args.source, args.overrides))
    /\ UNCHANGED <<storeVars, histVars, serverVars, redactionVars, args>>

NextMerge == Merge

SpecMerge == InitMerge /\ [][NextMerge]_vars

\* pathnames of target URLs (new URL(..).pathname starts with a slash) and wildcard
\* sub-paths (request.params["*"]), as sequences of characters
SampleBasePaths ==
    {<<"/">>, <<"/", "a">>, <<"/", "a", "/">>, <<"/", "a", "/", "/">>,
     <<"/", "a", "/", "b">>, <<"/", "a", "/", "b", "/">>, <<"/", "/">>,
     <<"/", "a", "b">>}

SampleSubPaths ==
    {<<>>, <<"x">>, <<"/", "x">>, <<"x", "/">>, <<"/", "x", "/">>, <<"/", "/", "x">>,
     <<"x", "/", "y">>, <<"/">>}

InitJoin ==
    /\ NothingElse
    /\ args \in {[fn |-> "joinPath", basePath |-> basePath, suffix |-> suffix] :
                    basePath \in SampleBasePaths, suffix \in SampleSubPaths}
    /\ result = NotReturned

\* baseTarget.pathname = joinPath(baseTarget.pathname, request.params["*"] ?? "")
Join ==
    /\ args.fn = "joinPath"
    /\ result = NotReturned
    /\ result' = ReturnedValue(joinPath(args.basePath, args.suffix))
    /\ UNCHANGED <<storeVars, histVars, serverVars, redactionVars, args>>

NextJoin == Join

SpecJoin == InitJoin /\ [][NextJoin]_vars

----------------------------------------------------------------------------
(* The server's claims. A claim about what a handler does is a property of  *)
(* the steps of that handler.                                               *)

\* the store after the step
After == Store(captures', byId')

\* the ids of the records in list()
ListedIds(st) == {list(st)[i].id : i \in DOMAIN list(st)}

\* the step leaves the store and its file as they are
StoreUntouched == captures' = captures /\ byId' = byId /\ file' = file

\* the step issues no outbound call
NoCallIssued == inflight' = inflight /\ calls' = calls

\* the step is a replay request for a retained capture, with no overrides
ReplaysAsStored(id) == ReplayRequest([id |-> id, overrides |-> NoOverrides])

\* the step is the completion of the exchange of a call in flight
Completes(call) == \E response \in UpstreamResponses(call.sent) : UpstreamResponds(call, response)

\* the record that a completed exchange stored is the newest of list(), has the
\* replayed id as its replayOf (null after a proxied call), and is the item that
\* a replay returns
RecordsProvenance(call) ==
    LET record == list(After)[1]
    IN  /\ record.replayOf = IF call.kind = "replay" THEN call.replayOf ELSE Null
        /\ get(After, record.id) = Found(record)
        /\ call.kind = "replay" => reply' = Answered("replay", 200, [item |-> record])

\* C6 as stated: a replay with no overrides issues exactly the method, target URL,
\* header map and body of the stored ReplaySource, and its record has replayOf equal
\* to the replayed id; a proxied call's record has replayOf null.
C6_ReplaySendsStoredSource ==
    [][/\ \A id \in ListedIds(Current) :
              ReplaysAsStored(id)
                  => LET source == Current.byId[id].replay
                     IN  \E call \in inflight' \ inflight :
                             /\ call.replayOf = id
                             /\ call.sent.method = source.method
                             /\ call.sent.targetUrl = source.targetUrl
                             /\ call.sent.headers = source.headers
                             /\ call.sent.body = source.body
       /\ \A call \in inflight : Completes(call) => RecordsProvenance(call)]_vars

\* C6, amended: a replay with no overrides issues the method (in upper case), the
\* target URL and the header map of the stored ReplaySource, with the stored body
\* unless the method is GET or HEAD, and then with no body; its record has replayOf
\* equal to the replayed id; a proxied call's record has replayOf null.
C6_ReplaySendsStoredSourceBodyless ==
    [][/\ \A id \in ListedIds(Current) :
              ReplaysAsStored(id)
                  => LET source == Current.byId[id].replay
                     IN  \E call \in inflight' \ inflight :
                             /\ call.replayOf = id
                             /\ call.sent.method = toUpperCase(source.method)
                             /\ call.sent.targetUrl = source.targetUrl
                             /\ call.sent.headers = source.headers
                             /\ call.sent.body =
                                    IF toUpperCase(source.method) \in {"GET", "HEAD"}
                                    THEN Undefined
                                    ELSE source.body
       /\ \A call \in inflight : Completes(call) => RecordsProvenance(call)]_vars

\* C6 witness: a replay that carries the stored source as it is, with the original
\* authorization header and body, is in flight beside the record of an earlier replay
C6_Witness ==
    /\ \E call \in inflight :
           /\ call.kind = "replay"
           /\ call.replayOf \in ListedIds(Current)
           /\ call.replay = Current.byId[call.replayOf].replay
           /\ "authorization" \in DOMAIN call.sent.headers
           /\ call.sent.headers["authorization"] = "Bearer very-secret-token"
           /\ call.sent.body = SecretJson
    /\ \E i \in DOMAIN captures : captures[i].record.replayOf # Null
    /\ \E i \in DOMAIN captures : captures[i].record.replayOf = Null

\* C7 as stated: every successful replay makes list() longer by exactly one, and the
\* replayed original is still in the list, also on a store at its maximum.
C7_ReplayGrowsListByOne ==
    [][\A call \in inflight :
           (call.kind = "replay" /\ Completes(call))
               => /\ Len(list(After)) = Len(list(Current)) + 1
                  /\ call.replayOf \in ListedIds(After)]_vars

\* C7, amended: every successful replay puts exactly one record at the head of
\* list(): the list after it is the new record followed by the list before, cut to
\* the maximum N, so its length is min(length before + 1, N); the replayed original
\* is in the list afterwards exactly when it was among the first N - 1 records before.
C7_ReplayPrependsWithinMaximum ==
    [][\A call \in inflight :
           (call.kind = "replay" /\ Completes(call))
               => LET before == list(Current)
                      after == list(After)
                  IN  /\ reply'.handler = "replay" /\ reply'.statusCode = 200
                      /\ after = Take(<<reply'.content.item>> \o before, maxCaptures)
                      /\ Len(after) = Min(Len(before) + 1, maxCaptures)
                      /\ reply'.content.item.id \notin ListedIds(Current)
                      /\ call.replayOf \in ListedIds(After)
                             <=> \E i \in 1..Min(Len(before), maxCaptures - 1) :
                                     before[i].id = call.replayOf]_vars

\* C7 witness: a replay has completed on a store at its maximum and its original is
\* no longer in the list
C7_Witness ==
    /\ reply.handler = "replay" /\ reply.step = "answered" /\ reply.statusCode = 200
    /\ Len(captures) = maxCaptures
    /\ reply.content.item = list(Current)[1]
    /\ reply.content.item.replayOf \notin ListedIds(Current)

\* C8: a record and its ReplaySource never change: over every step of the server
\* get(id) and getReplaySource(id) of an id that stays in the list return what they
\* returned before, which for a new id is the record built and the source sent; an
\* id leaves the list only as the oldest entry of a full store, in the step of an add.
C8_RecordsNeverChange ==
    [][/\ \A id \in ListedIds(Current) \cap ListedIds(After) :
              /\ get(After, id) = get(Current, id)
              /\ getReplaySource(After, id) = getReplaySource(Current, id)
              /\ get(After, id).found /\ getReplaySource(After, id).found
       /\ \A id \in ListedIds(Current) \ ListedIds(After) :
              /\ Len(captures) = maxCaptures
              /\ list(Current)[Len(captures)].id = id
              /\ list(After)[1].id \notin ListedIds(Current)
              /\ Cardinality(ListedIds(Current) \ ListedIds(After)) = 1
       /\ \A id \in ListedIds(After) \ ListedIds(Current) :
              /\ list(After)[1].id = id
              /\ get(After, id) = Found(list(After)[1])
              /\ \E call \in inflight : getReplaySource(After, id) = Found(call.replay)]_vars

\* C8 witness: a replay with an override was stored, with a source that differs from
\* the one of its original, which is retained as the proxy stored it
C8_Witness ==
    \E i, j \in DOMAIN captures :
        /\ captures[i].record.replayOf = captures[j].record.id
        /\ captures[j].record.replayOf = Null
        /\ captures[i].replay # captures[j].replay
        /\ getReplaySource(Current, captures[j].record.id).value.method = "POST"
        /\ getReplaySource(Current, captures[j].record.id).value.body = SecretJson
        /\ get(Current, captures[j].record.id).value.request.body = RedactedJson[SecretJson]

\* C9: a replay request that names an id which is not in the list answers 404, issues
\* no outbound call and leaves the store as it is. (A request with no id or an empty
\* one names none: it is answered 400, with the same frame.)
C9_UnknownIdNotFound ==
    [][\A id \in ReplayIds \ ListedIds(Current) :
           ReplayRequest([id |-> id, overrides |-> NoOverrides])
               => /\ NoCallIssued
                  /\ StoreUntouched
                  /\ reply' = IF id \in {Undefined, ""}
                              THEN Answered("replay", 400, [error |-> "Replay id is required"])
                              ELSE Answered("replay", 404, [error |-> "Capture not found"])]_vars

\* C9 witness: a replay was answered 404 by a server that holds a replay's record
\* whose original it has evicted
C9_Witness ==
    /\ reply = Answered("replay", 404, [error |-> "Capture not found"])
    /\ \E i \in DOMAIN captures :
           captures[i].record.replayOf \notin ListedIds(Current) \cup {Null}

\* the request carries neither the target header nor the target query parameter
CarriesNoTarget(request) ==
    /\ "x-proxylab-target" \notin DOMAIN request.headers
    /\ \A i \in DOMAIN request.search : request.search[i][1] # "target"

\* the target the request carries: the header's, or else the query parameter's
CarriedTarget(request) ==
    IF "x-proxylab-target" \in DOMAIN request.headers
    THEN request.headers["x-proxylab-target"]
    ELSE searchParamsGet(request.search, "target")

\* C10: a proxied request with no target header and no target query parameter, or
\* with a target that is no parsable absolute URL, is answered 400 with an error
\* message; no outbound call is issued and no capture is added.
C10_InvalidTargetRejected ==
    [][\A request \in SampleRequests :
           (/\ ProxyRequest(request)
            /\ CarriesNoTarget(request) \/ CarriedTarget(request) \notin DOMAIN ParsedTargets)
               => /\ reply'.handler = "proxy" /\ reply'.step = "answered"
                  /\ reply'.statusCode = 400
                  /\ DOMAIN reply'.content = {"error"}
                  /\ reply'.content.error \in
                         {"Missing target URL. Set x-proxylab-target header or target query.",
                          "Invalid URL"}
                  /\ NoCallIssued
                  /\ StoreUntouched]_vars

\* C10 witness: a request with an unparsable target was answered 400 by a server
\* that has issued calls and holds a capture
C10_Witness ==
    /\ reply = Answered("proxy", 400, [error |-> "Invalid URL"])
    /\ calls > 0
    /\ captures # <<>>

\* every id a client can name
KnownIds == ReplayIds \cup ListedIds(Current) \cup ListedIds(After)

\* C11: when the outbound call of a proxied request or of a replay fails (fetchImpl
\* or the reading of the body throws), no capture is recorded: list(), get and
\* getReplaySource return after the failed call what they returned before it.
C11_FailedCallNotRecorded ==
    [][\A call \in inflight :
           UpstreamFails(call)
               => /\ list(After) = list(Current)
                  /\ \A id \in KnownIds :
                         /\ get(After, id) = get(Current, id)
                         /\ getReplaySource(After, id) = getReplaySource(Current, id)
                  /\ nextId' = nextId]_vars

\* C11 witness: a call has failed on a server that holds a capture, and fewer
\* records were made than calls have ended
C11_Witness ==
    /\ captures # <<>>
    /\ nextId + Cardinality(inflight) < calls
    /\ reply.step = "answered" /\ reply.statusCode \in {500, 502}
    /\ "error" \in DOMAIN reply.content

\* C12 as stated: a failed outbound call is answered 502 with the fixed error
\* message, by the proxy endpoint and by the replay endpoint alike.
C12_FailedCallAnswered502 ==
    [][\A call \in inflight :
           UpstreamFails(call)
               => reply' = Answered(call.kind, 502, [error |-> "Failed to reach target API"])]_vars

\* the target of the request can be resolved
Resolvable(request) ==
    ~CarriesNoTarget(request) /\ CarriedTarget(request) \in DOMAIN ParsedTargets

\* the step issues one outbound call, and only one
OneCallIssued ==
    /\ calls' = calls + 1
    /\ inflight \subseteq inflight'
    /\ Cardinality(inflight' \ inflight) = 1

\* C13: a proxy invocation that resolves its target and a replay invocation that
\* finds its capture issue exactly one outbound call; an invocation rejected before
\* forwarding issues none; the end of a call, success or failure, issues none (no
\* retry). So the count of calls grows exactly with the accepted invocations.
C13_OneCallPerAcceptedInvocation ==
    [][/\ \A request \in SampleRequests :
              ProxyRequest(request)
                  => IF Resolvable(request) THEN OneCallIssued ELSE NoCallIssued
       /\ \A payload \in ReplayPayloads :
              ReplayRequest(payload)
                  => IF payload.id \in ListedIds(Current) THEN OneCallIssued ELSE NoCallIssued
       /\ \A call \in inflight :
              (Completes(call) \/ UpstreamFails(call))
                  => calls' = calls /\ inflight' = inflight \ {call}]_vars

\* C13 witness: calls have succeeded and failed, all have ended, and an invocation
\* was rejected after them
C13_Witness ==
    /\ calls > nextId
    /\ nextId > 0
    /\ inflight = {}
    /\ reply.step = "answered" /\ reply.statusCode \in {400, 404}

\* the number of the completion that drew the record id: uuid(n) is drawn by
\* withCapture when the n-th exchange completes
completionOf(id) == CHOOSE n \in 1..nextId : uuid(n) = id

\* C14: the records of list() are in the order in which their exchanges completed,
\* most recently completed first, whatever the order in which the calls were issued.
C14_ListInCompletionOrder ==
    \A i, j \in DOMAIN captures :
        i < j => completionOf(captures[i].record.id) > completionOf(captures[j].record.id)

\* C14 witness: the record of the first call issued is newer in the list than the
\* record of the second call issued (proxied calls keep their own source id)
C14_Witness ==
    \E i, j \in DOMAIN captures :
        /\ i < j
        /\ captures[i].record.replayOf = Null /\ captures[j].record.replayOf = Null
        /\ captures[i].replay.id = sourceUuid(1)
        /\ captures[j].replay.id = sourceUuid(2)

\* what a read (list, get, getReplaySource, the file) can observe between two steps
ReadsConsistent ==
    /\ Len(captures) <= maxCaptures
    /\ \A i \in DOMAIN captures :
           /\ captures[i].record.id \in DOMAIN byId
           /\ byId[captures[i].record.id] = captures[i]
    /\ \A id \in DOMAIN byId : id \in ListedIds(Current)
    /\ mode = "file" /\ captures # <<>>
           => file = JsonFile(TRUE, [i \in DOMAIN captures |-> stringifyEntry(captures[i])])

\* a completed exchange is added exactly once and evicts at most one record
AddedOnce(call) ==
    LET added == ListedIds(After) \ ListedIds(Current)
    IN  /\ added = {uuid(nextId + 1)}
        /\ Cardinality({i \in DOMAIN captures' : captures'[i].record.id = uuid(nextId + 1)}) = 1
        /\ Cardinality(ListedIds(Current) \ ListedIds(After)) <= 1
        /\ Len(captures') <= Len(captures) + 1

\* C15: with calls in flight in any interleaving, every add is one step: no state
\* that a read can observe has more than N records, a listed record missing from
\* the index, an index entry that is not listed, or (durable store) a file that is
\* not the snapshot of the list; each completed exchange is added exactly once and
\* evicts at most one record.
C15_AddIsIndivisible ==
    /\ []ReadsConsistent
    /\ [][\A call \in inflight : Completes(call) => AddedOnce(call)]_vars

\* C15 witness: on a full durable store that has evicted, the first call issued
\* completed after a later one and another call is still in flight
C15_Witness ==
    /\ mode = "file"
    /\ inflight # {}
    /\ nextId > maxCaptures
    /\ Len(captures) = maxCaptures
    /\ captures[1].record.replayOf = Null
    /\ captures[1].replay.id = sourceUuid(1)
    /\ completionOf(captures[1].record.id) > 1

\* the (record, replay source) pairs of the memory, as JSON.stringify would write them
MemoryPairs(st) ==
    [i \in DOMAIN st.captures |->
        IF IsNull(st.captures[i])
        THEN [record |-> Missing, replay |-> Missing]
        ELSE [record |-> st.captures[i].record,
              replay |-> stringifyReplay(st.captures[i].replay)]]

\* the pairs of the captures list of a file
FilePairs(f) ==
    [i \in DOMAIN f.captures |-> [record |-> f.captures[i].record, replay |-> f.captures[i].replay]]

\* the file holds a snapshot whose list is the memory, in the same order
FileHoldsMemory == file.tag = "json" /\ file.isArray /\ FilePairs(file) = MemoryPairs(Current)

\* C16 as stated: after every completed add the file holds the snapshot of the
\* memory, and file and memory agree whenever no add is in progress (a file without
\* a captures list counts as agreeing with an empty memory).
C16_FileAgreesWheneverIdle ==
    (mode = "file" /\ phase \notin {"down", "crashed"})
        => IF file.tag = "json" /\ file.isArray THEN FileHoldsMemory ELSE captures = <<>>

\* C16, amended: when the last operation on a durable store is an add that returned,
\* the file holds the snapshot whose ordered list of pairs is the memory (same pairs,
\* same newest-first order); nothing is claimed between construction and the first
\* add that returns, nor after an add that threw.
C16_FileHoldsSnapshotAfterAdd ==
    (mode = "file" /\ phase \in {"running", "resumed"} /\ ~snapshotThrows(Current))
        => /\ FileHoldsMemory
           /\ \A i \in DOMAIN file.captures : file.captures[i].shape = "pair"

\* C16 witness: a durable store started on a file, full after two adds
C16_Witness ==
    /\ mode = "file" /\ phase = "running"
    /\ base # <<>>
    /\ Len(adds) >= 2
    /\ Len(captures) = 2
    /\ FileHoldsMemory

\* an InMemoryCaptureStore with the same maximum, given the same adds in the same order
RECURSIVE inMemoryAfter(_, _)
inMemoryAfter(entries, max) ==
    IF entries = <<>>
    THEN newInMemoryCaptureStore
    ELSE LET last == entries[Len(entries)]
         IN  add(inMemoryAfter(SubSeq(entries, 1, Len(entries) - 1), max), max,
                 last.record, last.replay)

\* C17: a durable store constructed empty and an in-memory store with the same
\* maximum, given the same adds, return equal list(), get(id) and getReplaySource(id)
\* after every add, and add returns the record it was given on both.
C17_DurableEqualsInMemory ==
    AddedFromEmpty
        => /\ \A entry \in SampleEntries :
                  captureStoreAdd(Current, file, entry.record, entry.replay).returned = entry.record
           /\ mode = "file"
                  => LET memory == inMemoryAfter(adds, maxCaptures)
                     IN  /\ list(Current) = list(memory)
                         /\ \A id \in AllIds :
                                /\ get(Current, id) = get(memory, id)
                                /\ getReplaySource(Current, id) = getReplaySource(memory, id)

\* C17 witness: a durable store started on an absent file has evicted, and the file
\* it wrote holds the full list
C17_Witness ==
    /\ mode = "file" /\ AddedFromEmpty
    /\ Len(adds) > maxCaptures
    /\ file.tag = "json" /\ Len(file.captures) = maxCaptures

\* C18: no call issued to the upstream, by the proxy endpoint or by the replay
\* endpoint with any header overrides, carries a header whose name is, compared
\* case-insensitively, one of the hop-by-hop names.
C18_NoHopByHopHeaderForwarded ==
    \A call \in inflight :
        \A key \in DOMAIN call.sent.headers : toLowerCase(key) \notin hopByHopHeaders

\* the header names of the model that one of the sensitive-name patterns matches
SensitiveHeaderNames == {"authorization", "X-Api-Key", "set-cookie"}

\* shown is original with the sensitive values masked, the other non-empty values
\* kept and the empty or absent values left out
HeadersRedacted(shown, original) ==
    /\ DOMAIN shown = {key \in DOMAIN original : original[key] \notin {Undefined, ""}}
    /\ \A key \in DOMAIN shown :
           shown[key] = IF key \in SensitiveHeaderNames THEN REDACTION_TOKEN
                        ELSE original[key]

\* C19: in every record stored or returned, the request headers are the headers of
\* the exchange and the response headers are those of the upstream's answer, with
\* every sensitive-named header masked by the redaction token, every other header
\* with a non-empty value unchanged, and the empty or absent ones left out.
C19_RecordHeadersRedacted ==
    /\ [](\A i \in DOMAIN captures :
              HeadersRedacted(captures[i].record.request.headers, captures[i].replay.headers))
    /\ [][\A call \in inflight : \A response \in UpstreamResponses(call.sent) :
              UpstreamResponds(call, response)
                  => LET record == captures'[1].record
                     IN  /\ HeadersRedacted(record.request.headers, call.replay.headers)
                         /\ HeadersRedacted(record.response.headers, response.headers)
                         /\ call.kind = "replay" => reply'.content.item = record]_vars

\* C19 witness: a stored record with two masked request headers, a kept one, an
\* empty one left out, and a masked response header
C19_Witness ==
    \E i \in DOMAIN captures :
        LET shown == captures[i].record.request.headers
        IN  /\ "x-trace" \in DOMAIN captures[i].replay.headers
            /\ "x-trace" \notin DOMAIN shown
            /\ {"authorization", "X-Api-Key", "content-type"} \subseteq DOMAIN shown
            /\ shown["authorization"] = REDACTION_TOKEN
            /\ shown["X-Api-Key"] = REDACTION_TOKEN
            /\ shown["content-type"] = "application/json"
            /\ "set-cookie" \in DOMAIN captures[i].record.response.headers
            /\ captures[i].record.response.headers["set-cookie"] = REDACTION_TOKEN

\* the document the claim describes: the same structure, the value of every field
\* with a sensitive key replaced by the token, everything else as it is
RECURSIVE Masked(_)
Masked(value) ==
    IF value.t = "array"
    THEN JsonArray([i \in DOMAIN value.v |-> Masked(value.v[i])])
    ELSE IF value.t = "object"
    THEN JsonObject([i \in DOMAIN value.v |->
                        <<value.v[i][1],
                          IF value.v[i][1] \in {"apiKey", "password", "access_token"}
                          THEN JsonString(REDACTION_TOKEN)
                          ELSE Masked(value.v[i][2])>>])
    ELSE value

\* C20: the redacted JSON body is the document itself with the value of every field
\* whose key is sensitive, at any depth and inside arrays, replaced wholesale by
\* the redaction token, and every other value unchanged.
C20_JsonRedactedByKey ==
    (phase = "redacting" /\ redacted # NotRedacted) => redacted = Masked(parsed)

----------------------------------------------------------------------------
(* Claims about what the server exposes and persists. *)

\* the ReplaySource of the same call in a run that differs only in the values of the
\* sensitive-named request headers and of the sensitive-keyed fields of a JSON body
OtherRun(replay) ==
    [replay EXCEPT
        !.headers = [key \in DOMAIN replay.headers |->
                        IF key \in SensitiveHeaderNames /\ replay.headers[key] # ""
                        THEN "other-value" ELSE replay.headers[key]],
        !.body = IF replay.body = SecretJson THEN OtherSecretJson ELSE replay.body]

\* what the claim compares of a record
Exposed(record) ==
    [method |-> record.method, targetUrl |-> record.targetUrl, path |-> record.path,
     statusCode |-> record.statusCode,
     requestHeaders |-> record.request.headers, requestBody |-> record.request.body,
     responseHeaders |-> record.response.headers, responseBody |-> record.response.body]

\* C21: the record that the completion of a call stores and the capture API returns
\* is, in method, targetUrl, path, statusCode, redacted headers and redacted bodies,
\* the same in the run whose sensitive header values and sensitive JSON body field
\* values are different and whose upstream answers the same.
C21_ExposedRecordIgnoresSecrets ==
    \A call \in inflight : \A response \in UpstreamResponses(call.sent) :
        Exposed(captureRecord(call.replay, response, call.replayOf, uuid(nextId + 1)))
            = Exposed(captureRecord(OtherRun(call.replay), response, call.replayOf,
                                    uuid(nextId + 1)))

\* the bodies of the model that hold the original value of a sensitive-keyed field
BodiesWithSecret == {SecretJson, OtherSecretJson, RedactedText[SecretJson], RedactedText[OtherSecretJson]}

\* a header map or body, as the file holds it, with an original sensitive value
HeadersHoldSecret(headers) ==
    \E key \in DOMAIN headers :
        key \in SensitiveHeaderNames /\ headers[key] \notin {REDACTION_TOKEN, ""}

\* C22: the persistence file of the durable store holds, at every moment, no original
\* value of a sensitive-named request header and no original value of a
\* sensitive-keyed JSON body field of a captured exchange, neither in the record nor
\* in anything else it writes for the exchange.
C22_FileHoldsNoSecret ==
    mode = "file"
        => \A i \in DOMAIN file.captures :
               LET pair == file.captures[i]
               IN  /\ ~HeadersHoldSecret(pair.record.request.headers)
                   /\ pair.record.request.body \notin BodiesWithSecret
                   /\ ~HeadersHoldSecret(pair.replay.headers)
                   /\ "body" \in DOMAIN pair.replay => pair.replay.body \notin BodiesWithSecret

----------------------------------------------------------------------------
(* Claims about functions of index.ts. *)

\* C23: the merged ReplaySource of a replay is, field by field: the upper-cased
\* override method if one is given, else the stored method; the override targetUrl
\* if given, else the stored one; the stored headers with every override key added
\* or replaced and every other stored key kept; no body when the override body is
\* null, the override body when one is given (the empty string included), and the
\* stored body when none is given.
C23_MergedFieldByField ==
    (args.fn = "mergedReplay" /\ result.done)
        => LET source == args.source
               overrides == args.overrides
               merged == result.value
           IN  /\ merged.method = IF overrides.method = Undefined THEN source.method
                                  ELSE toUpperCase(overrides.method)
               /\ merged.targetUrl = IF overrides.targetUrl = Absent THEN source.targetUrl
                                     ELSE overrides.targetUrl.value
               /\ DOMAIN merged.headers = DOMAIN source.headers \cup DOMAIN overrides.headers
               /\ \A key \in DOMAIN overrides.headers :
                      merged.headers[key] = overrides.headers[key]
               /\ \A key \in DOMAIN source.headers \ DOMAIN overrides.headers :
                      merged.headers[key] = source.headers[key]
               /\ overrides.body = Null => merged.body = Undefined
               /\ overrides.body \notin {Null, Undefined} => merged.body = overrides.body
               /\ overrides.body = Undefined => merged.body = source.body
               /\ merged.id = source.id /\ merged.path = source.path

\* C23 witness: an empty override body replaces a stored body, a lower-case override
\* method is upper-cased and an override header replaces a stored one
C23_Witness ==
    /\ args.fn = "mergedReplay" /\ result.done
    /\ args.source.body = SecretJson /\ args.overrides.body = "" /\ result.value.body = ""
    /\ args.overrides.method = "get" /\ result.value.method = "GET"
    /\ result.value.headers["content-type"] = "text/plain"
    /\ "authorization" \in DOMAIN result.value.headers

\* C24: every call whose method is GET or HEAD is sent without a body, whoever
\* issued it and however the method is spelled in the ReplaySource it was built from.
C24_GetAndHeadSentWithoutBody ==
    \A call \in inflight :
        call.sent.method \in {"GET", "HEAD"} => call.sent.body = Undefined

\* the request carries a usable target in its query, in its target header
UsableQueryTarget(request) ==
    searchParamsGet(request.search, "target") \in DOMAIN ParsedTargets

UsableHeaderTarget(request) ==
    /\ "x-proxylab-target" \in DOMAIN request.headers
    /\ request.headers["x-proxylab-target"] \in DOMAIN ParsedTargets

\* C25: a proxied request that carries a usable target in the query parameter or in
\* the target header is resolved and its call is issued, whatever the other channel
\* carries.
C25_UsableTargetResolves ==
    [][\A request \in SampleRequests :
           (ProxyRequest(request) /\ (UsableQueryTarget(request) \/ UsableHeaderTarget(request)))
               => /\ OneCallIssued
                  /\ reply' = Issued("proxy")]_vars

\* a path without its trailing slashes, without its leading slashes
RECURSIVE WithoutTrailingSlashes(_)
WithoutTrailingSlashes(path) ==
    IF path # <<>> /\ path[Len(path)] = "/"
    THEN WithoutTrailingSlashes(SubSeq(path, 1, Len(path) - 1))
    ELSE path

RECURSIVE WithoutLeadingSlashes(_)
WithoutLeadingSlashes(path) ==
    IF path # <<>> /\ Head(path) = "/" THEN WithoutLeadingSlashes(Tail(path)) ELSE path

\* C26: for every origin path and sub-path, with or without leading and trailing
\* slashes, the joined path is the origin path and the sub-path with exactly one
\* slash between them: no doubled slash and no missing slash where they meet.
C26_JoinedByOneSlash ==
    (args.fn = "joinPath" /\ result.done)
        => result.value = WithoutTrailingSlashes(args.basePath) \o <<"/">>
                              \o WithoutLeadingSlashes(args.suffix)

----------------------------------------------------------------------------
(* Further claims about the store. *)

\* C27: every record in list() is found by get and getReplaySource under its id,
\* after any adds, also when an id is added again while still retained.
C27_ListedRecordsRetrievable ==
    \A i \in DOMAIN captures :
        ~IsNull(captures[i])
            => /\ get(Current, captures[i].record.id).found
               /\ getReplaySource(Current, captures[i].record.id).found

Max(a, b) == IF a > b THEN a ELSE b

\* C28: for every integer maximum, the eviction loop stops (every iteration it
\* enters shortens the list, which is what makes it stop) and leaves
\* max(0, min(size, N)) entries of the size entries it found.
C28_PruneTerminates ==
    /\ (phase = "pruning" /\ Len(captures) > maxCaptures)
           => Len(popped(captures)) < Len(captures)
    /\ phase = "ready"
           => Len(captures) = Max(0, Min(Len(prev.captures), maxCaptures))

----------------------------------------------------------------------------
(* Further claims about the server. *)

\* C29: when the file write of a durable add fails, the store is left as it was: the
\* record of the exchange is not listed and not found afterwards, so that the proxy
\* endpoint's gateway-error answer is never given for an exchange that is recorded.
C29_FailedWriteLeavesStore ==
    [][\A call \in inflight : \A response \in UpstreamResponses(call.sent) :
           UpstreamRespondsWriteFails(call, response)
               => /\ list(After) = list(Current)
                  /\ ~get(After, uuid(nextId + 1)).found
                  /\ ~getReplaySource(After, uuid(nextId + 1)).found]_vars

\* the ids of the records drawn so far
DrawnIds == {uuid(n) : n \in 1..nextId}

\* C30: a replay reads its ReplaySource once, when it is requested: the call it issues
\* names a retained id and carries the merged values of that moment; whatever is
\* evicted while the call is in flight, a call whose source is gone can complete, and a
\* completion stores the values the call carries in a record whose replayOf is the requested id.
C30_ReplayReadsSourceOnce ==
    /\ [](\A call \in inflight :
              (call.kind = "replay" /\ call.replayOf \notin ListedIds(Current))
                  => \A response \in UpstreamResponses(call.sent) :
                         ENABLED UpstreamResponds(call, response))
    /\ [][/\ \A payload \in ReplayPayloads :
                 (ReplayRequest(payload) /\ calls' = calls + 1)
                     => \E call \in inflight' \ inflight :
                            /\ payload.id \in ListedIds(Current)
                            /\ call.replayOf = payload.id
                            /\ call.replay = mergedReplay(getReplaySource(Current, payload.id).value,
                                                          payload.overrides)
                            /\ call.sent = proxyToTarget(call.replay)
          /\ \A call \in inflight : \A response \in UpstreamResponses(call.sent) :
                 (UpstreamResponds(call, response) /\ call.kind = "replay")
                     => /\ captures'[1].record.id = uuid(nextId + 1)
                        /\ captures'[1].record.replayOf = call.replayOf
                        /\ captures'[1].replay = call.replay
                        /\ reply' = Answered("replay", 200, [item |-> captures'[1].record])]_vars

\* C30 witness: a retained record names, as replayOf, an id that is no longer
\* retained and that was evicted by another completion while the replay was in flight
C30_Witness ==
    \E i \in DOMAIN captures :
        LET record == captures[i].record
        IN  /\ record.replayOf \in DrawnIds
            /\ record.replayOf \notin ListedIds(Current)
            /\ completionOf(record.id) > completionOf(record.replayOf) + 1
            /\ maxCaptures = 1

\* the step constructs a FileCaptureStore on the file
Reconstructs ==
    /\ mode = "file"
    /\ phase' # phase
    /\ phase' \in {"constructed", "reopened", "recovered"}

\* the file is a document whose captures list consists of pairs, more of them than max
HoldsMorePairsThan(f, max) ==
    /\ f.tag = "json"
    /\ f.isArray
    /\ \A i \in DOMAIN f.captures : f.captures[i].shape = "pair"
    /\ Len(f.captures) > max

\* the first n pairs of the file, as the entries they are read as
FirstPairs(f, n) == [i \in 1..n |-> parseEntry(f.captures[i])]

\* C31: a durable store constructed on a file that holds more pairs than the maximum N
\* keeps exactly the first N pairs of the file, in file order, and get and
\* getReplaySource find exactly the ids of those N pairs, each with its pair.
C31_LoadKeepsNewestN ==
    [][(Reconstructs /\ HoldsMorePairsThan(file, maxCaptures'))
           => LET kept == FirstPairs(file, maxCaptures')
              IN  /\ captures' = kept
                  /\ \A id \in AllIds :
                         /\ get(After, id).found <=> \E i \in DOMAIN kept : kept[i].record.id = id
                         /\ getReplaySource(After, id).found
                                <=> \E i \in DOMAIN kept : kept[i].record.id = id
                  /\ \A i \in DOMAIN kept :
                         /\ get(After, kept[i].record.id) = Found(kept[i].record)
                         /\ getReplaySource(After, kept[i].record.id) = Found(kept[i].replay)]_vars

====
